---- MODULE Spec2Model ----
(***************************************************************************)
(* Model of linux/mobile_ocr_plugin.cc: the MobileOcrPlugin GObject type   *)
(* (G_DEFINE_TYPE, instance init, class init, dispose) and the entry point *)
(* mobile_ocr_plugin_register_with_registrar.                              *)
(*                                                                         *)
(* Each caller (a host thread that calls the entry point) walks through    *)
(* the statements of the entry point:                                      *)
(*   idle -> get_type [-> register_type] -> new -> cleanup                 *)
(*        -> dispose -> finalize -> ret -> idle                            *)
(* The GObject runtime calls the file makes (g_once type registration,     *)
(* g_object_new, g_object_unref through g_autoptr) are modelled by their   *)
(* documented contract; the host's registrar is modelled by the two things *)
(* the host does with it (deliver a message, tear it down).                *)
(***************************************************************************)
EXTENDS Naturals, Integers, Sequences, FiniteSets

\* ---------------------------------------------------------------- bounds
\* Total number of calls of the entry point the host makes.
MaxCalls == 3
\* Number of platform messages the host delivers through the registrar.
MaxMessages == 1

\* The host threads that may call the entry point.
Callers == {"main", "worker"}

\* ------------------------------------------------------------- constants
\* The null object pointer (the value of an out-of-scope local).
NULL == 0
\* The registrar handles the host may pass: a null handle or its registrar.
Handles == {"null", "registrar"}

\* Number of data members of struct _MobileOcrPlugin besides parent_instance.
OwnFields == 0

VARIABLES
  pc,         \* pc[t]: position of caller t in the entry point
  arg,        \* arg[t]: the registrar handle caller t was given
  plugin,     \* plugin[t]: the local g_autoptr(GObject) plugin of caller t
  inst,       \* inst[i]: the i-th object ever allocated (kept after free)
  type_once,  \* the g_once state of mobile_ocr_plugin_get_type
  klass,      \* the MobileOcrPluginClass structure
  registrar,  \* the host's registrar: attached handlers, torn down or not
  calls,      \* number of calls of the entry point made so far
  sent,       \* number of messages the host delivered
  handled     \* number of messages a plugin instance handled

vars == <<pc, arg, plugin, inst, type_once, klass, registrar, calls, sent, handled>>

\* ------------------------------------------------------------ the object
\* struct _MobileOcrPlugin { GObject parent_instance; }: a zero-filled
\* allocation holding the parent's reference count (1 for the creator) and
\* OwnFields own members.  trace is the sequence of dispose routines the
\* object went through; freed marks memory returned by finalization.
ZeroedInstance ==
  [ref_count |-> 1, own |-> [k \in 1..OwnFields |-> 0], trace |-> <<>>, freed |-> FALSE]

\* static void mobile_ocr_plugin_init(MobileOcrPlugin* self) {}
mobile_ocr_plugin_init_writes(self) == [self EXCEPT !.own = Append(@, 1)]
mobile_ocr_plugin_init(self) == self

\* The parent type's dispose (GObject's own): releases nothing of the plugin.
g_object_dispose(object) == [object EXCEPT !.trace = Append(@, "g_object_dispose")]

\* static void mobile_ocr_plugin_dispose(GObject* object):
\*   G_OBJECT_CLASS(mobile_ocr_plugin_parent_class)->dispose(object);
mobile_ocr_plugin_dispose_skips_parent(object) ==
  [object EXCEPT !.trace = Append(@, "mobile_ocr_plugin_dispose")]
mobile_ocr_plugin_dispose(object) ==
  g_object_dispose([object EXCEPT !.trace = Append(@, "mobile_ocr_plugin_dispose")])

\* The class structure as the runtime creates it: dispose inherited from the
\* parent class, class_init not yet run.
InheritedClass == [dispose |-> "g_object_dispose", class_inits |-> 0]

\* static void mobile_ocr_plugin_class_init(MobileOcrPluginClass* klass):
\*   G_OBJECT_CLASS(klass)->dispose = mobile_ocr_plugin_dispose;
mobile_ocr_plugin_class_init_no_hook(k) == [k EXCEPT !.class_inits = @ + 1]
mobile_ocr_plugin_class_init(k) ==
  [k EXCEPT !.dispose = "mobile_ocr_plugin_dispose", !.class_inits = @ + 1]

\* Virtual call klass->dispose(object).
CallDispose(k, object) ==
  IF k.dispose = "mobile_ocr_plugin_dispose"
  THEN mobile_ocr_plugin_dispose(object)
  ELSE g_object_dispose(object)

\* g_once_init_leave at the end of the type registration of G_DEFINE_TYPE.
OnceLeaveStuck == "running"
OnceLeave == "done"

\* g_object_new returns a fresh allocation: the next object never handed out.
ReusedObject(heap) == IF DOMAIN heap = {} THEN 1 ELSE Len(heap)
FreshObject(heap) == Len(heap) + 1

\* g_object_unref: drop one reference.
g_object_unref_twice(object) == [object EXCEPT !.ref_count = @ - 2]
g_object_unref(object) == [object EXCEPT !.ref_count = @ - 1]

\* End of scope of `g_autoptr(GObject) plugin`: the automatic cleanup unrefs.
RawPointerCleanup(object) == object
AutoptrCleanup(object) == g_object_unref(object)

\* What the entry point does to the registrar with the new instance: nothing
\* (the parameter `registrar` is not used in the body).
AttachHandler(reg, handle, obj) ==
  IF handle = "registrar" THEN [reg EXCEPT !.handlers = @ \cup {obj}] ELSE reg
RegistrarAfterRegister(reg, handle, obj) == reg

\* -------------------------------------------------------------- derived
Objects == DOMAIN inst
Live == {i \in Objects : ~inst[i].freed}
Running == {t \in Callers : pc[t] # "idle"}
\* Objects whose registering call has returned to the host.
Returned == {i \in Objects : \A t \in Callers : plugin[t] # i}

\* ----------------------------------------------------------------- Init
Init ==
  /\ pc = [t \in Callers |-> "idle"]
  /\ arg = [t \in Callers |-> "null"]
  /\ plugin = [t \in Callers |-> NULL]
  /\ inst = <<>>
  /\ type_once = "uninit"
  /\ klass = InheritedClass
  /\ registrar = [handlers |-> {}, torn |-> FALSE]
  /\ calls = 0
  /\ sent = 0
  /\ handled = 0

\* -------------------------------------------------------------- actions
\* The host calls mobile_ocr_plugin_register_with_registrar(handle).
Call(t) ==
  /\ pc[t] = "idle"
  /\ calls < MaxCalls
  /\ \E h \in Handles : arg' = [arg EXCEPT ![t] = h]
  /\ pc' = [pc EXCEPT ![t] = "get_type"]
  /\ calls' = calls + 1
  /\ UNCHANGED <<plugin, inst, type_once, klass, registrar, sent, handled>>

\* mobile_ocr_plugin_get_type(), type already registered: return the id.
GetTypeFast(t) ==
  /\ pc[t] = "get_type"
  /\ type_once = "done"
  /\ pc' = [pc EXCEPT ![t] = "new"]
  /\ UNCHANGED <<arg, plugin, inst, type_once, klass, registrar, calls, sent, handled>>

\* mobile_ocr_plugin_get_type(), first caller: g_once_init_enter succeeds.
\* A caller arriving while the registration runs blocks (no step enabled).
GetTypeEnter(t) ==
  /\ pc[t] = "get_type"
  /\ type_once = "uninit"
  /\ type_once' = "running"
  /\ pc' = [pc EXCEPT ![t] = "register_type"]
  /\ UNCHANGED <<arg, plugin, inst, klass, registrar, calls, sent, handled>>

\* The type is registered and g_once_init_leave publishes it.
RegisterType(t) ==
  /\ pc[t] = "register_type"
  /\ type_once' = OnceLeave
  /\ pc' = [pc EXCEPT ![t] = "new"]
  /\ UNCHANGED <<arg, plugin, inst, klass, registrar, calls, sent, handled>>

\* g_autoptr(GObject) plugin = G_OBJECT(g_object_new(type, nullptr));
\* The first instantiation initialises the class (under the runtime's class
\* lock, hence in the same step), then the zero-filled instance is
\* allocated and mobile_ocr_plugin_init runs on it.
ObjectNew(t) ==
  /\ pc[t] = "new"
  /\ LET k == IF klass.class_inits = 0 THEN mobile_ocr_plugin_class_init(klass) ELSE klass
         o == FreshObject(inst)
         new == mobile_ocr_plugin_init(ZeroedInstance)
     IN /\ klass' = k
        /\ inst' = IF o \in DOMAIN inst THEN [inst EXCEPT ![o] = new] ELSE Append(inst, new)
        /\ plugin' = [plugin EXCEPT ![t] = o]
        /\ registrar' = RegistrarAfterRegister(registrar, arg[t], o)
  /\ pc' = [pc EXCEPT ![t] = "cleanup"]
  /\ UNCHANGED <<arg, type_once, calls, sent, handled>>

\* The closing brace: the automatic cleanup of `plugin` runs.  Dropping the
\* last reference starts disposal; otherwise the function returns.
ScopeExit(t) ==
  /\ pc[t] = "cleanup"
  /\ LET after == AutoptrCleanup(inst[plugin[t]])
     IN /\ inst' = [inst EXCEPT ![plugin[t]] = after]
        /\ pc' = [pc EXCEPT ![t] = IF after.ref_count = 0 THEN "dispose" ELSE "ret"]
  /\ UNCHANGED <<arg, plugin, type_once, klass, registrar, calls, sent, handled>>

\* The runtime calls the class's dispose on the object.
Dispose(t) ==
  /\ pc[t] = "dispose"
  /\ inst' = [inst EXCEPT ![plugin[t]] = CallDispose(klass, @)]
  /\ pc' = [pc EXCEPT ![t] = "finalize"]
  /\ UNCHANGED <<arg, plugin, type_once, klass, registrar, calls, sent, handled>>

\* The runtime finalizes the object and frees its memory.
Finalize(t) ==
  /\ pc[t] = "finalize"
  /\ inst' = [inst EXCEPT ![plugin[t]].freed = TRUE]
  /\ pc' = [pc EXCEPT ![t] = "ret"]
  /\ UNCHANGED <<arg, plugin, type_once, klass, registrar, calls, sent, handled>>

\* The entry point returns (void); its local goes out of existence.
Return(t) ==
  /\ pc[t] = "ret"
  /\ pc' = [pc EXCEPT ![t] = "idle"]
  /\ plugin' = [plugin EXCEPT ![t] = NULL]
  /\ arg' = [arg EXCEPT ![t] = "null"]
  /\ UNCHANGED <<inst, type_once, klass, registrar, calls, sent, handled>>

\* A step of caller t inside the entry point.
Step(t) ==
  \/ GetTypeFast(t)
  \/ GetTypeEnter(t)
  \/ RegisterType(t)
  \/ ObjectNew(t)
  \/ ScopeExit(t)
  \/ Dispose(t)
  \/ Finalize(t)
  \/ Return(t)

\* The host delivers a platform message through the registrar's channels: a
\* plugin handles it only if one of its instances is attached as a handler.
DeliverMessage ==
  /\ ~registrar.torn
  /\ sent < MaxMessages
  /\ sent' = sent + 1
  /\ handled' = IF registrar.handlers # {} THEN handled + 1 ELSE handled
  /\ UNCHANGED <<pc, arg, plugin, inst, type_once, klass, registrar, calls>>

\* The host tears down the registrar, dropping whatever is attached to it.
Teardown ==
  /\ ~registrar.torn
  /\ registrar' = [handlers |-> {}, torn |-> TRUE]
  /\ UNCHANGED <<pc, arg, plugin, inst, type_once, klass, calls, sent, handled>>

Next ==
  \/ \E t \in Callers : Call(t)
  \/ \E t \in Callers : Step(t)
  \/ DeliverMessage
  \/ Teardown

Spec == Init /\ [][Next]_vars

\* Every host thread inside the entry point keeps being scheduled.
FairSpec == Spec /\ \A t \in Callers : WF_vars(Step(t))

\* --------------------------------------------------------------- claims
Disposed(i) == inst[i].trace # <<>>
Holding == {t \in Callers : pc[t] \in {"cleanup", "dispose", "finalize"}}
FullDispose == <<"mobile_ocr_plugin_dispose", "g_object_dispose">>

\* C1: registration does not leak.  When a call is at its return, the
\* object it constructed has reference count zero, was disposed and is
\* freed; the live objects are exactly those of the calls still between
\* construction and finalization, so a call leaves as many live objects
\* behind as it found.
C1_NoLeak ==
  /\ \A t \in Callers : pc[t] = "ret" =>
        /\ plugin[t] \in Objects
        /\ inst[plugin[t]].ref_count = 0
        /\ Disposed(plugin[t])
        /\ inst[plugin[t]].freed
  /\ Live = {plugin[t] : t \in Holding}
  /\ (Running = {} => Live = {})

\* C1 witness: a call is at its return after an earlier call completed.
C1_Witness ==
  \E t \in Callers : pc[t] = "ret" /\ plugin[t] >= 2 /\ Live = {}

\* C2 (as claimed): while the registrar is not torn down, the object of
\* every registration that has returned (or is returning) is still alive.
C2_ExistsWhileRegistered ==
  ~registrar.torn =>
     /\ \A i \in Returned : ~inst[i].freed
     /\ \A t \in Callers : pc[t] = "ret" => ~inst[plugin[t]].freed

\* C3: registration leaves the registrar unchanged: no step of the entry
\* point changes the registrar, no handler is ever attached to it, and no
\* message the host delivers is handled by the plugin.
C3_RegistrarUntouched ==
  /\ [](registrar.handlers = {} /\ handled = 0)
  /\ [][(\E t \in Callers : Call(t) \/ Step(t)) => UNCHANGED registrar]_vars

\* C3 witness: a registration with the host's registrar handle is at its
\* return, the registrar is not torn down and the host delivered messages.
C3_Witness ==
  \E t \in Callers :
     /\ pc[t] = "ret"
     /\ arg[t] = "registrar"
     /\ ~registrar.torn
     /\ sent = MaxMessages

\* C4: registration always completes: every call that has been entered,
\* whatever handle it was given, reaches its return and goes back to the
\* host (there is no position of the entry point other than its statements).
C4_AlwaysCompletes ==
  \A t \in Callers :
     /\ (pc[t] = "get_type") ~> (pc[t] = "ret")
     /\ (pc[t] # "idle") ~> (pc[t] = "idle")

\* C4 witness: one call with a null handle and one with the host's
\* registrar are both at their return.
C4_Witness ==
  /\ pc["main"] = "ret" /\ arg["main"] = "null"
  /\ pc["worker"] = "ret" /\ arg["worker"] = "registrar"

\* C5: dispose runs only on an object whose reference count is zero; it is
\* mobile_ocr_plugin_dispose followed by the parent's dispose, exactly once
\* each and in that order; nothing is freed without it; and the dispose step
\* changes nothing but the object's dispose trace.
C5_DisposeForwardsOnce ==
  /\ [](\A i \in Objects :
          /\ inst[i].trace \in {<<>>, FullDispose}
          /\ (Disposed(i) => inst[i].ref_count = 0)
          /\ (inst[i].freed => Disposed(i)))
  /\ [](\A t \in Callers : pc[t] \in {"finalize", "ret"} => inst[plugin[t]].trace = FullDispose)
  /\ [][\A t \in Callers : Dispose(t) =>
          /\ inst' = [inst EXCEPT ![plugin[t]].trace = FullDispose]
          /\ UNCHANGED <<klass, registrar, type_once, plugin, handled>>]_vars

\* C5 witness: an object has been disposed and is about to be finalized.
C5_Witness ==
  \E t \in Callers : pc[t] = "finalize" /\ inst[plugin[t]].trace = FullDispose

\* C6: each call constructs exactly one object (as many objects exist as
\* calls have passed their construction, and calls holding an object hold
\* different ones), and no object ever holds any data.
C6_OneEmptyInstancePerCall ==
  /\ Len(inst) = calls - Cardinality({t \in Callers : pc[t] \in {"get_type", "register_type", "new"}})
  /\ \A i \in Objects : inst[i].own = <<>>
  /\ \A t \in Callers : pc[t] \in {"idle", "get_type", "register_type", "new"} <=> plugin[t] = NULL

\* C6 witness: a second object has been constructed and not yet released.
C6_Witness ==
  \E t \in Callers : pc[t] = "cleanup" /\ plugin[t] >= 2 /\ inst[plugin[t]].own = <<>>

\* C7: no shared mutable state: calls in flight hold different objects, a
\* step of a call changes no object but its own, and whenever no call is in
\* flight no object is live.
C7_NoSharedState ==
  /\ [](\A t, u \in Callers : (t # u /\ plugin[t] # NULL) => plugin[t] # plugin[u])
  /\ [](Running = {} => Live = {})
  /\ [][\A t \in Callers : Step(t) =>
          \A i \in Objects : i # plugin[t] => inst'[i] = inst[i]]_vars

\* C7 witness: two calls are interleaved, each holding its own object.
C7_Witness ==
  /\ pc["main"] = "dispose"
  /\ pc["worker"] = "cleanup"
  /\ plugin["main"] # plugin["worker"]

\* C8: an object's reference count is 0 or 1; it is 1 from construction up
\* to the end of the scope; it only ever changes from 1 to 0 (one release);
\* an object is disposed once; and a freed object is never touched again.
C8_SingleReference ==
  /\ [](\A i \in Objects :
          /\ inst[i].ref_count \in {0, 1}
          /\ Len(inst[i].trace) <= 2
          /\ (inst[i].freed => inst[i].ref_count = 0 /\ inst[i].trace = FullDispose))
  /\ [](\A t \in Callers :
          /\ (pc[t] = "cleanup" => inst[plugin[t]].ref_count = 1)
          /\ (pc[t] \in {"cleanup", "dispose", "finalize"} => ~inst[plugin[t]].freed))
  /\ [][\A i \in Objects :
          /\ (inst'[i].ref_count # inst[i].ref_count =>
                inst[i].ref_count = 1 /\ inst'[i].ref_count = 0)
          /\ (inst[i].freed => inst'[i] = inst[i])]_vars

\* C8 witness: one object was released and freed while another still has
\* its single reference.
C8_Witness ==
  \E t \in Callers, i \in Objects :
     /\ pc[t] = "cleanup"
     /\ inst[plugin[t]].ref_count = 1
     /\ inst[i].freed
     /\ inst[i].ref_count = 0

\* C9: class initialisation precedes every construction: once an object
\* exists the type is registered, class_init has run exactly once and
\* installed mobile_ocr_plugin_dispose; class_init never runs twice; and
\* every disposal starts in mobile_ocr_plugin_dispose.
C9_ClassInitFirst ==
  /\ klass.class_inits <= 1
  /\ (klass.class_inits = 0 => klass.dispose = "g_object_dispose" /\ Objects = {})
  /\ (Objects # {} =>
        /\ type_once = "done"
        /\ klass.class_inits = 1
        /\ klass.dispose = "mobile_ocr_plugin_dispose")
  /\ \A i \in Objects : Disposed(i) => Head(inst[i].trace) = "mobile_ocr_plugin_dispose"

\* C9 witness: after several registrations, objects have been disposed.
C9_Witness ==
  /\ calls >= 3
  /\ Len(inst) >= 2
  /\ \A i \in Objects : Disposed(i)

====
